---- MODULE Spec2Model ----
(***************************************************************************)
(* Verification model of the two mutual-exclusion primitives of the        *)
(* repository and of their harnesses:                                      *)
(*   - Lamport's Bakery lock, in its two sources (src/Lamport_ds.cpp with  *)
(*     the counter-only harness, and part_000 with the occupancy harness); *)
(*   - the DelegationLock of part_001 (queue, mutex, condition variable,   *)
(*     one executor thread, promise per task).                             *)
(* Every load and store of an atomic is one step of the thread making it.  *)
(***************************************************************************)
EXTENDS Integers, Sequences, FiniteSets

\* ---------------------------------------------------------------- bounds
NumThreads == 2          \* participants of a Bakery run (threadCount / NUM_THREADS)
Iterations == 2          \* lock/unlock rounds per participant of a Bakery run

NumClients == 1          \* threads running workerTask against one DelegationLock
Operations == 1          \* async+wait rounds per workerTask thread
OwnerSubmits == 2        \* closures the owning thread submits without waiting

Threads == 0 .. (NumThreads - 1)
\* threads that call DelegationLock::async: 0 is the thread that owns the lock
\* (constructs and destroys it), 1 .. NumClients run workerTask
Clients == 1 .. NumClients
Submitters == 0 .. NumClients
\* a Task is named by its submitter and the rank of the submission in that thread
Tasks == (Clients \X (1 .. Operations)) \cup ({0} \X (1 .. OwnerSubmits))
NoTask == <<>>
Impls == {"Lamport_ds", "part_000"}

VARIABLES
    \* ---- Bakery lock and its harness
    impl,                            \* which of the two sources is running
    choosing,                        \* choosing[i]
    ticket,                          \* ticket[i] (number[i] in part_000)
    pc,                              \* position of each participant
    j,                               \* loop index of the scan / wait loop
    max_ticket,                      \* local max_ticket (max_num)
    iter,                            \* completed iterations of the harness loop
    shared_counter,                  \* sharedCounter / shared_counter
    inside_critical_section_count,   \* occupancy counter (part_000)
    mutual_exclusion_violated,       \* violation flag (part_000)
    ahead,                           \* history: who finished a doorway before mine began and has not entered yet
    aheadSnap                        \* history: ahead[i] as recorded when my doorway began

VARIABLES
    \* ---- DelegationLock and its harness
    taskQueue,       \* queue<Task> taskQueue
    queueMutex,      \* TRUE while queueMutex is held
    running,         \* atomic<bool> running
    wpc,             \* position of the executor thread in worker()
    task,            \* the executor's local Task
    cpc,             \* position of each submitting thread
    ops,             \* submissions made so far by each thread
    promise,         \* state of each Task's promise / future
    work,            \* what each Task's closure does: returns or throws
    closureState,    \* whether each closure is idle, running, returned or threw
    sharedCounter,   \* the counter the closures increment
    pushOrder,       \* history: Tasks in the order of taskQueue.push
    execOrder,       \* history: Tasks in the order the executor started them
    resolveOrder,    \* history: Tasks in the order of completion.set_value()
    waitReturned     \* history: Tasks whose fut.wait() has returned

VARIABLES
    \* ---- history of the Bakery doorways
    lastTicket,      \* history: the ticket assigned by each participant's latest completed doorway
    earlier,         \* history: earlier[me][i] = lastTicket[i] when my doorway began
    held             \* history: the same, for those i that had not released when my scan read ticket[i]

VARIABLES
    \* ---- main() of part_000 up to the start of the threads
    num_threads,     \* the configured NUM_THREADS
    mpc,             \* position of main()
    init_i,          \* loop index of the initialisation and of the thread creation
    boot_choosing,   \* choosing[0 .. MAX_THREADS-1] as main() leaves it
    boot_number,     \* number[0 .. MAX_THREADS-1] as main() leaves it
    started          \* threads created so far

hvars == <<lastTicket, earlier, held>>

cvars == <<num_threads, mpc, init_i, boot_choosing, boot_number, started>>

dvars == <<taskQueue, queueMutex, running, wpc, task, cpc, ops, promise, work,
           closureState, sharedCounter, pushOrder, execOrder, resolveOrder, waitReturned>>

bvars == <<impl, choosing, ticket, pc, j, max_ticket, iter, shared_counter,
           inside_critical_section_count, mutual_exclusion_violated, ahead, aheadSnap>>

vars == <<bvars, dvars, hvars, cvars>>

\* ------------------------------------------------------------ pure helpers
\* a scan that keeps the last value read instead of the greatest
MaxLast(a, b) == b

Max(a, b) == IF a > b THEN a ELSE b

\* a doorway that forgets the + 1 (never below 1, so the ticket still marks a request)
NewTicketNoIncrement(m) == Max(m, 1)

\* a doorway that takes the maximum itself
NewTicketSame(m) == m

\* a doorway that skips a number
NewTicketByTwo(m) == m + 2

\* ticket[id] = max_ticket + 1
NewTicket(m) == m + 1

\* ticket[i] != 0: the other thread holds a ticket
NonZero(ti) == ti # 0

\* ticket[i] < ticket[id]
Lower(ti, tid) == ti < tid

\* a wait loop without the tie-break on the id
TieLowerIgnored(ti, i, tid, id) == FALSE

\* ticket[i] == ticket[id] && i < id
TieLower(ti, i, tid, id) == ti = tid /\ i < id

\* the whole condition of the second wait loop, on one value num_j of number[j]
MustWait(ti, i, tid, id) == NonZero(ti) /\ (Lower(ti, tid) \/ TieLower(ti, i, tid, id))

\* a wait loop that does not look at choosing[i]
StillChoosingIgnored(c) == FALSE

\* while (choosing[i]): the condition of the first wait loop
StillChoosing(c) == c

\* next index of the wait loop after k that is not id (NumThreads when none)
NextOther(id, k) ==
    IF \E m \in Threads : m > k /\ m # id
    THEN CHOOSE m \in Threads : m > k /\ m # id /\ \A n \in Threads : (n > k /\ n # id) => m <= n
    ELSE NumThreads

\* positions between the return of lock() and the store of unlock()
CSLabels == {"cs_enter", "cs_flag", "cs_count", "cs_check", "cs_flag_again", "cs_leave", "unlock"}
\* first statement after lock() returns: the occupancy increment in part_000, the counter in Lamport_ds.cpp
FirstCS == IF impl = "part_000" THEN "cs_enter" ELSE "cs_count"
\* first load of the second wait loop
FirstLoad == IF impl = "part_000" THEN "wait_num" ELSE "wait_t1"
\* positions of the waiting scan
WaitLabels == {"wait_choosing", "wait_num", "wait_t1", "wait_t2", "wait_t3"}
InCS(i) == pc[i] \in CSLabels
Waiting(i) == pc[i] \in WaitLabels

\* ------------------------------------------------------------------ Init
BakeryInit ==
    /\ impl \in Impls
    /\ choosing = [i \in Threads |-> FALSE]
    /\ ticket = [i \in Threads |-> 0]
    /\ pc = [i \in Threads |-> "start"]
    /\ j = [i \in Threads |-> 0]
    /\ max_ticket = [i \in Threads |-> 0]
    /\ iter = [i \in Threads |-> 0]
    /\ shared_counter = 0
    /\ inside_critical_section_count = 0
    /\ mutual_exclusion_violated = FALSE
    /\ ahead = [i \in Threads |-> {}]
    /\ aheadSnap = [i \in Threads |-> {}]
    /\ lastTicket = [i \in Threads |-> 0]
    /\ earlier = [me \in Threads |-> [i \in Threads |-> 0]]
    /\ held = [me \in Threads |-> [i \in Threads |-> 0]]

\* --------------------------------------------------------------- actions
\* a loop test that runs the body once more: i <= ITERATIONS
LoopTestOneMore(id) ==
    /\ pc[id] = "start"
    /\ pc' = [pc EXCEPT ![id] = IF iter[id] <= Iterations THEN "choose_true" ELSE "done"]
    /\ UNCHANGED <<dvars, cvars, hvars, impl, choosing, ticket, j, max_ticket, iter, shared_counter,
                   inside_critical_section_count, mutual_exclusion_violated, ahead, aheadSnap>>

\* for (i = 0; i < ITERATIONS; ++i): loop test of the harness thread
LoopTest(id) ==
    /\ pc[id] = "start"
    /\ pc' = [pc EXCEPT ![id] = IF iter[id] < Iterations THEN "choose_true" ELSE "done"]
    /\ UNCHANGED <<dvars, cvars, hvars, impl, choosing, ticket, j, max_ticket, iter, shared_counter,
                   inside_critical_section_count, mutual_exclusion_violated, ahead, aheadSnap>>

\* choosing[id] = true
ChooseTrue(id) ==
    /\ pc[id] = "choose_true"
    /\ choosing' = [choosing EXCEPT ![id] = TRUE]
    /\ pc' = [pc EXCEPT ![id] = "scan"]
    /\ j' = [j EXCEPT ![id] = 0]
    /\ max_ticket' = [max_ticket EXCEPT ![id] = 0]
    /\ ahead' = [ahead EXCEPT ![id] = {i \in Threads \ {id} : Waiting(i)}]
    /\ aheadSnap' = [aheadSnap EXCEPT ![id] = {i \in Threads \ {id} : Waiting(i)}]
    /\ earlier' = [earlier EXCEPT ![id] = [i \in Threads |-> IF i = id THEN 0 ELSE lastTicket[i]]]
    /\ held' = [held EXCEPT ![id] =
                   [i \in Threads |-> IF i # id /\ (Waiting(i) \/ InCS(i)) THEN ticket[i] ELSE 0]]
    /\ UNCHANGED <<dvars, cvars, lastTicket, impl, ticket, iter, shared_counter,
                   inside_critical_section_count, mutual_exclusion_violated>>

\* one round of the max scan: current = ticket[i]; max_ticket = max(max_ticket, current)
ScanMax(id) ==
    /\ pc[id] = "scan"
    /\ max_ticket' = [max_ticket EXCEPT ![id] = Max(max_ticket[id], ticket[j[id]])]
    /\ IF j[id] + 1 < NumThreads
       THEN /\ j' = [j EXCEPT ![id] = j[id] + 1]
            /\ pc' = pc
       ELSE /\ j' = [j EXCEPT ![id] = 0]
            /\ pc' = [pc EXCEPT ![id] = "store_ticket"]
    /\ UNCHANGED <<dvars, cvars, hvars, impl, choosing, ticket, iter, shared_counter,
                   inside_critical_section_count, mutual_exclusion_violated, ahead, aheadSnap>>

\* ticket[id] = max_ticket + 1
StoreTicket(id) ==
    /\ pc[id] = "store_ticket"
    /\ ticket' = [ticket EXCEPT ![id] = NewTicket(max_ticket[id])]
    /\ max_ticket' = [max_ticket EXCEPT ![id] = 0]
    /\ pc' = [pc EXCEPT ![id] = "choose_false"]
    /\ UNCHANGED <<dvars, cvars, hvars, impl, choosing, j, iter, shared_counter,
                   inside_critical_section_count, mutual_exclusion_violated, ahead, aheadSnap>>

\* where the wait loop goes after it is done with index k
AfterOther(id, k) == IF NextOther(id, k) = NumThreads THEN FirstCS ELSE "wait_choosing"
\* history: a participant that has entered is ahead of nobody any more
AheadAfter(id, k) ==
    IF NextOther(id, k) = NumThreads THEN [i \in Threads |-> ahead[i] \ {id}] ELSE ahead
IndexAfter(id, k) == IF NextOther(id, k) = NumThreads THEN 0 ELSE NextOther(id, k)

\* choosing[id] = false, and entry into the wait loop
ChooseFalse(id) ==
    /\ pc[id] = "choose_false"
    /\ choosing' = [choosing EXCEPT ![id] = FALSE]
    /\ j' = [j EXCEPT ![id] = IndexAfter(id, -1)]
    /\ pc' = [pc EXCEPT ![id] = AfterOther(id, -1)]
    /\ ahead' = AheadAfter(id, -1)
    /\ lastTicket' = [lastTicket EXCEPT ![id] = ticket[id]]
    /\ UNCHANGED <<dvars, cvars, earlier, held, impl, ticket, max_ticket, iter, shared_counter,
                   inside_critical_section_count, mutual_exclusion_violated, aheadSnap>>

\* leaving the body of the wait loop for index j[id]: next index, or lock() returns
Advance(id) ==
    /\ j' = [j EXCEPT ![id] = IndexAfter(id, j[id])]
    /\ pc' = [pc EXCEPT ![id] = AfterOther(id, j[id])]
    /\ ahead' = AheadAfter(id, j[id])

\* staying in the loop: this_thread::yield() and back to the first load of the condition
Yield(id, label) ==
    /\ pc' = [pc EXCEPT ![id] = label]
    /\ UNCHANGED <<j, ahead>>

\* while (choosing[i]) yield
WaitChoosing(id) ==
    /\ pc[id] = "wait_choosing"
    /\ IF StillChoosing(choosing[j[id]])
       THEN Yield(id, "wait_choosing")
       ELSE Yield(id, FirstLoad)
    /\ UNCHANGED <<dvars, cvars, hvars, impl, choosing, ticket, max_ticket, iter, shared_counter,
                   inside_critical_section_count, mutual_exclusion_violated, aheadSnap>>

\* part_000: one load num_j = number[j], compared with the thread's own number
WaitNum(id) ==
    /\ pc[id] = "wait_num"
    /\ impl = "part_000"
    /\ IF MustWait(ticket[j[id]], j[id], ticket[id], id)
       THEN Yield(id, "wait_num")
       ELSE Advance(id)
    /\ UNCHANGED <<dvars, cvars, hvars, impl, choosing, ticket, max_ticket, iter, shared_counter,
                   inside_critical_section_count, mutual_exclusion_violated, aheadSnap>>

\* Lamport_ds.cpp: first load of the condition, ticket[i] != 0
WaitT1(id) ==
    /\ pc[id] = "wait_t1"
    /\ impl = "Lamport_ds"
    /\ IF NonZero(ticket[j[id]])
       THEN Yield(id, "wait_t2")
       ELSE Advance(id)
    /\ UNCHANGED <<dvars, cvars, hvars, impl, choosing, ticket, max_ticket, iter, shared_counter,
                   inside_critical_section_count, mutual_exclusion_violated, aheadSnap>>

\* Lamport_ds.cpp: second load, ticket[i] < ticket[id]
WaitT2(id) ==
    /\ pc[id] = "wait_t2"
    /\ impl = "Lamport_ds"
    /\ IF Lower(ticket[j[id]], ticket[id])
       THEN Yield(id, "wait_t1")
       ELSE Yield(id, "wait_t3")
    /\ UNCHANGED <<dvars, cvars, hvars, impl, choosing, ticket, max_ticket, iter, shared_counter,
                   inside_critical_section_count, mutual_exclusion_violated, aheadSnap>>

\* Lamport_ds.cpp: third load, ticket[i] == ticket[id] && i < id
WaitT3(id) ==
    /\ pc[id] = "wait_t3"
    /\ impl = "Lamport_ds"
    /\ IF TieLower(ticket[j[id]], j[id], ticket[id], id)
       THEN Yield(id, "wait_t1")
       ELSE Advance(id)
    /\ UNCHANGED <<dvars, cvars, hvars, impl, choosing, ticket, max_ticket, iter, shared_counter,
                   inside_critical_section_count, mutual_exclusion_violated, aheadSnap>>

\* a test that misses the second participant
OccupiedAboveOne(current_inside) == current_inside > 1

\* if (current_inside > 0): another thread was already inside at the increment
Occupied(current_inside) == current_inside > 0

\* part_000: current_inside = inside.fetch_add(1), as a step of its own; the value
\* read decides whether the store to the flag follows
CsEnterAdd(id) ==
    /\ pc[id] = "cs_enter"
    /\ inside_critical_section_count' = inside_critical_section_count + 1
    /\ pc' = [pc EXCEPT ![id] =
                 IF Occupied(inside_critical_section_count) THEN "cs_flag" ELSE "cs_count"]
    /\ UNCHANGED <<dvars, cvars, hvars, impl, choosing, ticket, j, max_ticket, iter, shared_counter,
                   mutual_exclusion_violated, ahead, aheadSnap>>

\* part_000: mutual_exclusion_violated.store(true) after the increment
CsFlag(id) ==
    /\ pc[id] = "cs_flag"
    /\ mutual_exclusion_violated' = TRUE
    /\ pc' = [pc EXCEPT ![id] = "cs_count"]
    /\ UNCHANGED <<dvars, cvars, hvars, impl, choosing, ticket, j, max_ticket, iter, shared_counter,
                   inside_critical_section_count, ahead, aheadSnap>>

\* part_000: the load of the double check, inside.load() > 1, as a step of its own
CsCheckLoad(id) ==
    /\ pc[id] = "cs_check"
    /\ pc' = [pc EXCEPT ![id] =
                 IF inside_critical_section_count > 1 THEN "cs_flag_again" ELSE "cs_leave"]
    /\ UNCHANGED <<dvars, cvars, hvars, impl, choosing, ticket, j, max_ticket, iter, shared_counter,
                   inside_critical_section_count, mutual_exclusion_violated, ahead, aheadSnap>>

\* part_000: mutual_exclusion_violated.store(true) of the double check
CsFlagAgain(id) ==
    /\ pc[id] = "cs_flag_again"
    /\ mutual_exclusion_violated' = TRUE
    /\ pc' = [pc EXCEPT ![id] = "cs_leave"]
    /\ UNCHANGED <<dvars, cvars, hvars, impl, choosing, ticket, j, max_ticket, iter, shared_counter,
                   inside_critical_section_count, ahead, aheadSnap>>

\* part_000: current_inside = inside.fetch_add(1); if (current_inside > 0) violated = true
CsEnter(id) ==
    /\ pc[id] = "cs_enter"
    /\ inside_critical_section_count' = inside_critical_section_count + 1
    /\ mutual_exclusion_violated' =
           IF Occupied(inside_critical_section_count) THEN TRUE ELSE mutual_exclusion_violated
    /\ pc' = [pc EXCEPT ![id] = "cs_count"]
    /\ UNCHANGED <<dvars, cvars, hvars, impl, choosing, ticket, j, max_ticket, iter, shared_counter, ahead, aheadSnap>>

\* an increment that is lost when another participant is at its increment too
CsCountLostUpdate(id) ==
    /\ pc[id] = "cs_count"
    /\ shared_counter' =
           IF \E k \in Threads \ {id} : pc[k] = "cs_count"
           THEN shared_counter ELSE shared_counter + 1
    /\ pc' = [pc EXCEPT ![id] = IF impl = "part_000" THEN "cs_check" ELSE "unlock"]
    /\ UNCHANGED <<dvars, cvars, hvars, impl, choosing, ticket, j, max_ticket, iter,
                   inside_critical_section_count, mutual_exclusion_violated, ahead, aheadSnap>>

\* sharedCounter++ / shared_counter.fetch_add(1): one atomic read-modify-write
CsCount(id) ==
    /\ pc[id] = "cs_count"
    /\ shared_counter' = shared_counter + 1
    /\ pc' = [pc EXCEPT ![id] = IF impl = "part_000" THEN "cs_check" ELSE "unlock"]
    /\ UNCHANGED <<dvars, cvars, hvars, impl, choosing, ticket, j, max_ticket, iter,
                   inside_critical_section_count, mutual_exclusion_violated, ahead, aheadSnap>>

\* part_000: if (inside.load() > 1) violated = true
CsCheck(id) ==
    /\ pc[id] = "cs_check"
    /\ mutual_exclusion_violated' =
           IF inside_critical_section_count > 1 THEN TRUE ELSE mutual_exclusion_violated
    /\ pc' = [pc EXCEPT ![id] = "cs_leave"]
    /\ UNCHANGED <<dvars, cvars, hvars, impl, choosing, ticket, j, max_ticket, iter, shared_counter,
                   inside_critical_section_count, ahead, aheadSnap>>

\* part_000: inside.fetch_sub(1)
CsLeave(id) ==
    /\ pc[id] = "cs_leave"
    /\ inside_critical_section_count' = inside_critical_section_count - 1
    /\ pc' = [pc EXCEPT ![id] = "unlock"]
    /\ UNCHANGED <<dvars, cvars, hvars, impl, choosing, ticket, j, max_ticket, iter, shared_counter,
                   mutual_exclusion_violated, ahead, aheadSnap>>

\* history: my own records end with my round; a scan that has not yet read
\* ticket[id] will not see the ticket that is released now
HistoryAfterUnlock(id) ==
    /\ earlier' = [earlier EXCEPT ![id] = [i \in Threads |-> 0]]
    /\ held' = [me \in Threads |->
                   [i \in Threads |->
                      IF me = id \/ (i = id /\ pc[me] = "scan" /\ j[me] <= id)
                      THEN 0 ELSE held[me][i]]]
    /\ UNCHANGED lastTicket

\* an unlock that leaves the ticket in place
UnlockKeepsTicket(id) ==
    /\ pc[id] = "unlock"
    /\ iter' = [iter EXCEPT ![id] = iter[id] + 1]
    /\ pc' = [pc EXCEPT ![id] = "start"]
    /\ HistoryAfterUnlock(id)
    /\ UNCHANGED <<dvars, cvars, impl, choosing, ticket, j, max_ticket, shared_counter,
                   inside_critical_section_count, mutual_exclusion_violated, ahead, aheadSnap>>

\* an unlock that clears every ticket
UnlockResetsAll(id) ==
    /\ pc[id] = "unlock"
    /\ ticket' = [i \in Threads |-> 0]
    /\ iter' = [iter EXCEPT ![id] = iter[id] + 1]
    /\ pc' = [pc EXCEPT ![id] = "start"]
    /\ HistoryAfterUnlock(id)
    /\ UNCHANGED <<dvars, cvars, impl, choosing, j, max_ticket, shared_counter,
                   inside_critical_section_count, mutual_exclusion_violated, ahead, aheadSnap>>

\* unlock(id): ticket[id] = 0, then the ++i of the harness loop
Unlock(id) ==
    /\ pc[id] = "unlock"
    /\ ticket' = [ticket EXCEPT ![id] = 0]
    /\ iter' = [iter EXCEPT ![id] = iter[id] + 1]
    /\ pc' = [pc EXCEPT ![id] = "start"]
    /\ HistoryAfterUnlock(id)
    /\ UNCHANGED <<dvars, cvars, impl, choosing, j, max_ticket, shared_counter,
                   inside_critical_section_count, mutual_exclusion_violated, ahead, aheadSnap>>

\* one step of participant id
Participant(id) ==
    \/ LoopTest(id)
    \/ ChooseTrue(id)
    \/ ScanMax(id)
    \/ StoreTicket(id)
    \/ ChooseFalse(id)
    \/ WaitChoosing(id)
    \/ WaitNum(id)
    \/ WaitT1(id)
    \/ WaitT2(id)
    \/ WaitT3(id)
    \/ CsEnter(id)
    \/ CsCount(id)
    \/ CsCheck(id)
    \/ CsLeave(id)
    \/ Unlock(id)

\* ---- part_000 with the scan's loads at their declared ordering
\* number[i].load(std::memory_order_relaxed): a relaxed load is not ordered after the
\* earlier store to another location, choosing[thread_id], so the loads of the scan
\* may take effect before that store does
ScanEarly(id) ==
    /\ impl = "part_000"
    /\ pc[id] \in {"choose_true", "scan_early"}
    /\ max_ticket' = [max_ticket EXCEPT ![id] = Max(max_ticket[id], ticket[j[id]])]
    /\ IF j[id] + 1 < NumThreads
       THEN /\ j' = [j EXCEPT ![id] = j[id] + 1]
            /\ pc' = [pc EXCEPT ![id] = "scan_early"]
       ELSE /\ j' = [j EXCEPT ![id] = 0]
            /\ pc' = [pc EXCEPT ![id] = "choose_true_late"]
    /\ UNCHANGED <<dvars, cvars, hvars, impl, choosing, ticket, iter, shared_counter,
                   inside_critical_section_count, mutual_exclusion_violated, ahead, aheadSnap>>

\* choosing[thread_id].store(true) taking effect after the loads of the scan
ChooseTrueLate(id) ==
    /\ pc[id] = "choose_true_late"
    /\ choosing' = [choosing EXCEPT ![id] = TRUE]
    /\ pc' = [pc EXCEPT ![id] = "store_ticket"]
    /\ ahead' = [ahead EXCEPT ![id] = {i \in Threads \ {id} : Waiting(i)}]
    /\ aheadSnap' = [aheadSnap EXCEPT ![id] = {i \in Threads \ {id} : Waiting(i)}]
    /\ earlier' = [earlier EXCEPT ![id] = [i \in Threads |-> IF i = id THEN 0 ELSE lastTicket[i]]]
    /\ UNCHANGED <<dvars, cvars, lastTicket, held, impl, ticket, j, max_ticket, iter, shared_counter,
                   inside_critical_section_count, mutual_exclusion_violated>>

\* one step of worker_thread(id) of part_000
RelaxedParticipant(id) ==
    \/ LoopTest(id)
    \/ ChooseTrue(id)
    \/ ScanMax(id)
    \/ ScanEarly(id)
    \/ ChooseTrueLate(id)
    \/ StoreTicket(id)
    \/ ChooseFalse(id)
    \/ WaitChoosing(id)
    \/ WaitNum(id)
    \/ CsEnterAdd(id)
    \/ CsFlag(id)
    \/ CsCount(id)
    \/ CsCheckLoad(id)
    \/ CsFlagAgain(id)
    \/ CsLeave(id)
    \/ Unlock(id)

\* ---- the harness threads around a lock whose lock() and unlock() do nothing
\* lock(id) as a no-op: the thread goes straight to the protected section
LockNoOp(id) ==
    /\ pc[id] = "choose_true"
    /\ pc' = [pc EXCEPT ![id] = FirstCS]
    /\ UNCHANGED <<dvars, cvars, hvars, impl, choosing, ticket, j, max_ticket, iter, shared_counter,
                   inside_critical_section_count, mutual_exclusion_violated, ahead, aheadSnap>>

\* unlock(id) as a no-op, then the ++i of the harness loop
UnlockNoOp(id) ==
    /\ pc[id] = "unlock"
    /\ iter' = [iter EXCEPT ![id] = iter[id] + 1]
    /\ pc' = [pc EXCEPT ![id] = "start"]
    /\ UNCHANGED <<dvars, cvars, hvars, impl, choosing, ticket, j, max_ticket, shared_counter,
                   inside_critical_section_count, mutual_exclusion_violated, ahead, aheadSnap>>

\* one step of harness thread id around the no-op lock
UnlockedParticipant(id) ==
    \/ LoopTest(id)
    \/ LockNoOp(id)
    \/ CsEnterAdd(id)
    \/ CsFlag(id)
    \/ CsCount(id)
    \/ CsCheckLoad(id)
    \/ CsFlagAgain(id)
    \/ CsLeave(id)
    \/ UnlockNoOp(id)

\* ================================================== main() of part_000
\* const int MAX_THREADS = 64
MAX_THREADS == 64
Slots == 0 .. (MAX_THREADS - 1)

\* before main() runs: the arrays have static storage and are zero-initialised
BootInit ==
    /\ num_threads = 0
    /\ mpc = "configure"
    /\ init_i = 0
    /\ boot_choosing = [i \in Slots |-> FALSE]
    /\ boot_number = [i \in Slots |-> 0]
    /\ started = 0

\* a test that also rejects the maximum itself
ExceedsMaxInclusive(n) == n >= MAX_THREADS

\* NUM_THREADS > MAX_THREADS
ExceedsMax(n) == n > MAX_THREADS

\* const int NUM_THREADS = ...: the configured participant count, fixed before main() runs
Configure ==
    /\ mpc = "configure"
    /\ num_threads' \in 1 .. (MAX_THREADS + 1)
    /\ mpc' = "check"
    /\ UNCHANGED <<bvars, dvars, hvars, init_i, boot_choosing, boot_number, started>>

\* if (NUM_THREADS > MAX_THREADS) { std::cerr << ...; return 1; }
CheckMax ==
    /\ mpc = "check"
    /\ mpc' = IF ExceedsMax(num_threads) THEN "failed" ELSE "init"
    /\ UNCHANGED <<bvars, dvars, hvars, num_threads, init_i, boot_choosing, boot_number, started>>

\* for (i = 0; i < NUM_THREADS; ++i) { choosing[i].store(false); number[i].store(0); }
InitSlot ==
    /\ mpc = "init"
    /\ IF init_i < num_threads
       THEN /\ boot_choosing' = [boot_choosing EXCEPT ![init_i] = FALSE]
            /\ boot_number' = [boot_number EXCEPT ![init_i] = 0]
            /\ init_i' = init_i + 1
            /\ mpc' = mpc
       ELSE /\ init_i' = 0
            /\ mpc' = "spawn"
            /\ UNCHANGED <<boot_choosing, boot_number>>
    /\ UNCHANGED <<bvars, dvars, hvars, num_threads, started>>

\* for (i = 0; i < NUM_THREADS; ++i) threads.emplace_back(worker_thread, i)
Spawn ==
    /\ mpc = "spawn"
    /\ IF init_i < num_threads
       THEN /\ started' = started + 1
            /\ init_i' = init_i + 1
            /\ mpc' = mpc
       ELSE /\ mpc' = "running"
            /\ UNCHANGED <<started, init_i>>
    /\ UNCHANGED <<bvars, dvars, hvars, num_threads, boot_choosing, boot_number>>

ConstructNext ==
    \/ Configure
    \/ CheckMax
    \/ InitSlot
    \/ Spawn

\* ======================================================== DelegationLock
\* DelegationLock() : running(true), with an empty queue; the executor thread starts in worker()
DelegInit ==
    /\ taskQueue = <<>>
    /\ queueMutex = FALSE
    /\ running = TRUE
    /\ wpc = "loop"
    /\ task = NoTask
    /\ cpc = [s \in Submitters |-> "start"]
    /\ ops = [s \in Submitters |-> 0]
    /\ promise = [t \in Tasks |-> "none"]
    /\ work = [t \in Tasks |-> "none"]
    /\ closureState = [t \in Tasks |-> "idle"]
    /\ sharedCounter = 0
    /\ pushOrder = <<>>
    /\ execOrder = <<>>
    /\ resolveOrder = <<>>
    /\ waitReturned = {}

\* std::terminate has been called: the process is gone, no thread takes a step
Aborted == wpc = "terminated"

\* taskQueue.push(std::move(task))
QueuePushFront(q, t) == <<t>> \o q
QueuePush(q, t) == Append(q, t)
\* taskQueue.front()
QueueFront(q) == Head(q)
\* taskQueue.pop()
QueuePop(q) == Tail(q)
\* the predicate of queueCV.wait: !taskQueue.empty() || !running
WaitPredicate(q, r) == Len(q) # 0 \/ ~r

\* ---- worker()
\* while (running)
WLoop ==
    /\ UNCHANGED <<bvars, hvars, cvars>>
    /\ ~Aborted
    /\ wpc = "loop"
    /\ wpc' = IF running THEN "lock" ELSE "exited"
    /\ UNCHANGED <<taskQueue, queueMutex, running, task, cpc, ops, promise, work,
                   closureState, sharedCounter, pushOrder, execOrder, resolveOrder, waitReturned>>

\* unique_lock<mutex> lock(queueMutex), and the re-acquisition when a wait is woken
WLock ==
    /\ UNCHANGED <<bvars, hvars, cvars>>
    /\ ~Aborted
    /\ wpc \in {"lock", "woken"}
    /\ queueMutex = FALSE
    /\ queueMutex' = TRUE
    /\ wpc' = "pred"
    /\ UNCHANGED <<taskQueue, running, task, cpc, ops, promise, work,
                   closureState, sharedCounter, pushOrder, execOrder, resolveOrder, waitReturned>>

\* queueCV.wait(lock, pred): the predicate is evaluated with the mutex held
WPred ==
    /\ UNCHANGED <<bvars, hvars, cvars>>
    /\ ~Aborted
    /\ wpc = "pred"
    /\ wpc' = IF WaitPredicate(taskQueue, running) THEN "check" ELSE "block"
    /\ UNCHANGED <<taskQueue, queueMutex, running, task, cpc, ops, promise, work,
                   closureState, sharedCounter, pushOrder, execOrder, resolveOrder, waitReturned>>

\* the predicate was false: wait(lock) releases the mutex and blocks, atomically
WBlock ==
    /\ UNCHANGED <<bvars, hvars, cvars>>
    /\ ~Aborted
    /\ wpc = "block"
    /\ queueMutex' = FALSE
    /\ wpc' = "waiting"
    /\ UNCHANGED <<taskQueue, running, task, cpc, ops, promise, work,
                   closureState, sharedCounter, pushOrder, execOrder, resolveOrder, waitReturned>>

\* a condition variable may wake without a notification
SpuriousWakeup ==
    /\ UNCHANGED <<bvars, hvars, cvars>>
    /\ ~Aborted
    /\ wpc = "waiting"
    /\ wpc' = "woken"
    /\ UNCHANGED <<taskQueue, queueMutex, running, task, cpc, ops, promise, work,
                   closureState, sharedCounter, pushOrder, execOrder, resolveOrder, waitReturned>>

\* if (!running) break;  the unique_lock releases the mutex on the way out
WCheck ==
    /\ UNCHANGED <<bvars, hvars, cvars>>
    /\ ~Aborted
    /\ wpc = "check"
    /\ IF running
       THEN /\ wpc' = "pop"
            /\ UNCHANGED queueMutex
       ELSE /\ wpc' = "exited"
            /\ queueMutex' = FALSE
    /\ UNCHANGED <<taskQueue, running, task, cpc, ops, promise, work,
                   closureState, sharedCounter, pushOrder, execOrder, resolveOrder, waitReturned>>

\* Task task = std::move(taskQueue.front()); taskQueue.pop()
WPop ==
    /\ UNCHANGED <<bvars, hvars, cvars>>
    /\ ~Aborted
    /\ wpc = "pop"
    /\ task' = QueueFront(taskQueue)
    /\ taskQueue' = QueuePop(taskQueue)
    /\ wpc' = "unlock"
    /\ UNCHANGED <<queueMutex, running, cpc, ops, promise, work,
                   closureState, sharedCounter, pushOrder, execOrder, resolveOrder, waitReturned>>

\* an executor that goes from the unlock straight to the notification
WUnlockSkipsWork ==
    /\ UNCHANGED <<bvars, hvars, cvars>>
    /\ ~Aborted
    /\ wpc = "unlock"
    /\ queueMutex' = FALSE
    /\ wpc' = "set"
    /\ UNCHANGED <<taskQueue, running, task, cpc, ops, promise, work,
                   closureState, sharedCounter, pushOrder, execOrder, resolveOrder, waitReturned>>

\* lock.unlock()
WUnlock ==
    /\ UNCHANGED <<bvars, hvars, cvars>>
    /\ ~Aborted
    /\ wpc = "unlock"
    /\ queueMutex' = FALSE
    /\ wpc' = "work"
    /\ UNCHANGED <<taskQueue, running, task, cpc, ops, promise, work,
                   closureState, sharedCounter, pushOrder, execOrder, resolveOrder, waitReturned>>

\* an executor that hands the closure to someone else and goes on
WorkBeginDetached ==
    /\ UNCHANGED <<bvars, hvars, cvars>>
    /\ ~Aborted
    /\ wpc = "work"
    /\ closureState' = [closureState EXCEPT ![task] = "running"]
    /\ sharedCounter' = sharedCounter + 1
    /\ execOrder' = Append(execOrder, task)
    /\ wpc' = "loop"
    /\ UNCHANGED <<taskQueue, queueMutex, running, task, cpc, ops, promise, work,
                   pushOrder, resolveOrder, waitReturned>>

\* task.work() is entered: sharedCounter++
WorkBegin ==
    /\ UNCHANGED <<bvars, hvars, cvars>>
    /\ ~Aborted
    /\ wpc = "work"
    /\ closureState' = [closureState EXCEPT ![task] = "running"]
    /\ sharedCounter' = sharedCounter + 1
    /\ execOrder' = Append(execOrder, task)
    /\ wpc' = "working"
    /\ UNCHANGED <<taskQueue, queueMutex, running, task, cpc, ops, promise, work,
                   pushOrder, resolveOrder, waitReturned>>

\* task.work() returns after its workload loop
WorkReturn ==
    /\ UNCHANGED <<bvars, hvars, cvars>>
    /\ ~Aborted
    /\ wpc = "working"
    /\ work[task] = "normal"
    /\ closureState' = [closureState EXCEPT ![task] = "returned"]
    /\ wpc' = "set"
    /\ UNCHANGED <<taskQueue, queueMutex, running, task, cpc, ops, promise, work,
                   sharedCounter, pushOrder, execOrder, resolveOrder, waitReturned>>

\* task.work() throws: nothing in worker() catches, the exception leaves the
\* thread function and std::terminate ends the process
WorkThrow ==
    /\ UNCHANGED <<bvars, hvars, cvars>>
    /\ ~Aborted
    /\ wpc = "working"
    /\ work[task] = "throwing"
    /\ closureState' = [closureState EXCEPT ![task] = "threw"]
    /\ wpc' = "terminated"
    /\ UNCHANGED <<taskQueue, queueMutex, running, task, cpc, ops, promise, work,
                   sharedCounter, pushOrder, execOrder, resolveOrder, waitReturned>>

\* task.completion.set_value(), end of the loop body (the local Task is destroyed)
WSetValue ==
    /\ UNCHANGED <<bvars, hvars, cvars>>
    /\ ~Aborted
    /\ wpc = "set"
    /\ promise' = [promise EXCEPT ![task] = "ready"]
    /\ resolveOrder' = Append(resolveOrder, task)
    /\ task' = NoTask
    /\ wpc' = "loop"
    /\ UNCHANGED <<taskQueue, queueMutex, running, cpc, ops, work,
                   closureState, sharedCounter, pushOrder, execOrder, waitReturned>>

Worker ==
    \/ WLoop
    \/ WLock
    \/ WPred
    \/ WBlock
    \/ WCheck
    \/ WPop
    \/ WUnlock
    \/ WorkBegin
    \/ WorkReturn
    \/ WorkThrow
    \/ WSetValue

\* queueCV.notify_one(): wakes the executor if it is blocked in the wait, else has no effect
NotifyOne == IF wpc = "waiting" THEN "woken" ELSE wpc

\* the kinds of closure a caller can pass to async
WorkKinds == {"normal", "throwing"}

\* the Task a thread is submitting: its latest one
Current(s) == <<s, ops[s]>>

\* async, before the lock: Task task; task.work = std::move(work); fut = task.completion.get_future()
NewTask(s, kind) ==
    /\ ops' = [ops EXCEPT ![s] = ops[s] + 1]
    /\ promise' = [promise EXCEPT ![<<s, ops[s] + 1>>] = "pending"]
    /\ work' = [work EXCEPT ![<<s, ops[s] + 1>>] = kind]
    /\ cpc' = [cpc EXCEPT ![s] = "async_lock"]

\* workerTask: for (i = 0; i < OPERATIONS_PER_THREAD; ++i) lock.async(...)
CStart(c) ==
    /\ UNCHANGED <<bvars, hvars, cvars>>
    /\ ~Aborted
    /\ cpc[c] = "start"
    /\ IF ops[c] < Operations
       THEN \E kind \in WorkKinds : NewTask(c, kind)
       ELSE /\ cpc' = [cpc EXCEPT ![c] = "done"]
            /\ UNCHANGED <<ops, promise, work>>
    /\ UNCHANGED <<taskQueue, queueMutex, running, wpc, task,
                   closureState, sharedCounter, pushOrder, execOrder, resolveOrder, waitReturned>>

\* the owning thread submits one more closure and does not wait for it
OSubmit ==
    /\ UNCHANGED <<bvars, hvars, cvars>>
    /\ ~Aborted
    /\ cpc[0] = "start"
    /\ ops[0] < OwnerSubmits
    /\ \E kind \in WorkKinds : NewTask(0, kind)
    /\ UNCHANGED <<taskQueue, queueMutex, running, wpc, task,
                   closureState, sharedCounter, pushOrder, execOrder, resolveOrder, waitReturned>>

\* async: lock_guard<mutex> lock(queueMutex)
ALock(s) ==
    /\ UNCHANGED <<bvars, hvars, cvars>>
    /\ ~Aborted
    /\ cpc[s] = "async_lock"
    /\ queueMutex = FALSE
    /\ queueMutex' = TRUE
    /\ cpc' = [cpc EXCEPT ![s] = "push"]
    /\ UNCHANGED <<taskQueue, running, wpc, task, ops, promise, work,
                   closureState, sharedCounter, pushOrder, execOrder, resolveOrder, waitReturned>>

\* async: taskQueue.push(std::move(task))
APush(s) ==
    /\ UNCHANGED <<bvars, hvars, cvars>>
    /\ ~Aborted
    /\ cpc[s] = "push"
    /\ taskQueue' = QueuePush(taskQueue, Current(s))
    /\ pushOrder' = Append(pushOrder, Current(s))
    /\ cpc' = [cpc EXCEPT ![s] = "notify"]
    /\ UNCHANGED <<queueMutex, running, wpc, task, ops, promise, work,
                   closureState, sharedCounter, execOrder, resolveOrder, waitReturned>>

\* async: queueCV.notify_one()
ANotify(s) ==
    /\ UNCHANGED <<bvars, hvars, cvars>>
    /\ ~Aborted
    /\ cpc[s] = "notify"
    /\ wpc' = NotifyOne
    /\ cpc' = [cpc EXCEPT ![s] = "return"]
    /\ UNCHANGED <<taskQueue, queueMutex, running, task, ops, promise, work,
                   closureState, sharedCounter, pushOrder, execOrder, resolveOrder, waitReturned>>

\* async: return fut; the lock_guard releases the mutex.  workerTask goes on to
\* fut.wait(), the owning thread to its next submission
AReturn(s) ==
    /\ UNCHANGED <<bvars, hvars, cvars>>
    /\ ~Aborted
    /\ cpc[s] = "return"
    /\ queueMutex' = FALSE
    /\ cpc' = [cpc EXCEPT ![s] = IF s \in Clients THEN "wait" ELSE "start"]
    /\ UNCHANGED <<taskQueue, running, wpc, task, ops, promise, work,
                   closureState, sharedCounter, pushOrder, execOrder, resolveOrder, waitReturned>>

\* workerTask: fut.wait() returns once the shared state is ready
CWait(c) ==
    /\ UNCHANGED <<bvars, hvars, cvars>>
    /\ ~Aborted
    /\ cpc[c] = "wait"
    /\ promise[Current(c)] # "pending"
    /\ waitReturned' = waitReturned \cup {Current(c)}
    /\ cpc' = [cpc EXCEPT ![c] = "start"]
    /\ UNCHANGED <<taskQueue, queueMutex, running, wpc, task, ops, promise, work,
                   closureState, sharedCounter, pushOrder, execOrder, resolveOrder>>

\* testCorrectness: for (auto& t : threads) t.join(), after which lock goes out of scope
OJoinClients ==
    /\ UNCHANGED <<bvars, hvars, cvars>>
    /\ ~Aborted
    /\ cpc[0] = "start"
    /\ \A c \in Clients : cpc[c] = "done"
    /\ cpc' = [cpc EXCEPT ![0] = "dtor_store"]
    /\ UNCHANGED <<taskQueue, queueMutex, running, wpc, task, ops, promise, work,
                   closureState, sharedCounter, pushOrder, execOrder, resolveOrder, waitReturned>>

\* ~DelegationLock: running = false
DStore ==
    /\ UNCHANGED <<bvars, hvars, cvars>>
    /\ ~Aborted
    /\ cpc[0] = "dtor_store"
    /\ running' = FALSE
    /\ cpc' = [cpc EXCEPT ![0] = "dtor_notify"]
    /\ UNCHANGED <<taskQueue, queueMutex, wpc, task, ops, promise, work,
                   closureState, sharedCounter, pushOrder, execOrder, resolveOrder, waitReturned>>

\* ~DelegationLock: queueCV.notify_one(), without the mutex
DNotify ==
    /\ UNCHANGED <<bvars, hvars, cvars>>
    /\ ~Aborted
    /\ cpc[0] = "dtor_notify"
    /\ wpc' = NotifyOne
    /\ cpc' = [cpc EXCEPT ![0] = "dtor_join"]
    /\ UNCHANGED <<taskQueue, queueMutex, running, task, ops, promise, work,
                   closureState, sharedCounter, pushOrder, execOrder, resolveOrder, waitReturned>>

\* ~DelegationLock: workerThread.join() returns when worker() has returned; then the
\* members are destroyed, and a promise destroyed in the queue breaks its future
DJoin ==
    /\ UNCHANGED <<bvars, hvars, cvars>>
    /\ ~Aborted
    /\ cpc[0] = "dtor_join"
    /\ wpc = "exited"
    /\ promise' = [t \in Tasks |->
                      IF \E k \in 1 .. Len(taskQueue) : taskQueue[k] = t THEN "broken" ELSE promise[t]]
    /\ taskQueue' = <<>>
    /\ cpc' = [cpc EXCEPT ![0] = "destroyed"]
    /\ UNCHANGED <<queueMutex, running, wpc, task, ops, work,
                   closureState, sharedCounter, pushOrder, execOrder, resolveOrder, waitReturned>>

\* one step of a thread that uses the lock
Submitter(s) ==
    \/ ALock(s)
    \/ APush(s)
    \/ ANotify(s)
    \/ AReturn(s)

Client(c) ==
    \/ CStart(c)
    \/ CWait(c)
    \/ Submitter(c)

Owner ==
    \/ OSubmit
    \/ OJoinClients
    \/ DStore
    \/ DNotify
    \/ DJoin
    \/ Submitter(0)

DelegNext ==
    \/ Worker
    \/ SpuriousWakeup
    \/ Owner
    \/ \E c \in Clients : Client(c)

\* ======================================================== specifications
BakeryNext == \E id \in Threads : Participant(id)

Init == BakeryInit /\ DelegInit /\ BootInit

\* a run of one of the Bakery harnesses
BakerySpec == Init /\ [][BakeryNext]_vars

\* the scheduler runs every thread that can run: weak fairness per participant
BakeryFair == BakerySpec /\ \A id \in Threads : WF_vars(Participant(id))

\* a run of the DelegationLock with its submitting threads (no Bakery thread runs)
DelegStart == Init /\ impl = "part_000"

DelegSpec == DelegStart /\ [][DelegNext]_vars

\* every thread that can run does; a spurious wakeup may never come
DelegFair ==
    /\ DelegSpec
    /\ WF_vars(Worker)
    /\ WF_vars(Owner)
    /\ \A c \in Clients : WF_vars(Client(c))

\* ---- one process runs one harness: the Bakery one or the DelegationLock one
\* no Bakery thread has taken a step
BakeryIdle == \A i \in Threads : pc[i] = "start" /\ iter[i] = 0

\* no thread of the DelegationLock harness has taken a step
DelegIdle ==
    /\ wpc = "loop"
    /\ execOrder = <<>>
    /\ \A s \in Submitters : cpc[s] = "start" /\ ops[s] = 0

BakeryRun == DelegIdle /\ BakeryNext

DelegRun == BakeryIdle /\ DelegNext

HarnessNext ==
    \/ BakeryRun
    \/ DelegRun

\* a run of any one of the three harnesses
HarnessSpec == Init /\ [][HarnessNext]_vars

RelaxedNext == \E id \in Threads : RelaxedParticipant(id)

RelaxedStart == Init /\ impl = "part_000"

\* a run of part_000 in which each access has the ordering its source gives it
RelaxedSpec == RelaxedStart /\ [][RelaxedNext]_vars

NoLockNext == \E id \in Threads : UnlockedParticipant(id)

\* the harnesses run around a lock that excludes nobody
NoLockSpec == Init /\ [][NoLockNext]_vars

\* main() of part_000 from its first statement to the start of the last thread
ConstructSpec == Init /\ [][ConstructNext]_vars

\* C1: at most one participant is between the return of lock() and its unlock();
\* the occupancy counter never exceeds 1 and the violation flag stays false
MutualExclusion ==
    /\ \A a, b \in Threads : (InCS(a) /\ InCS(b)) => a = b
    /\ inside_critical_section_count <= 1
    /\ mutual_exclusion_violated = FALSE

\* a state where the lock is contended: one participant inside, another one waiting with a ticket
MutualExclusionWitness ==
    \E a, b \in Threads : a # b /\ InCS(a) /\ Waiting(b) /\ ticket[b] # 0

AllDone == \A i \in Threads : pc[i] = "done"

\* C2: under weak fairness of every participant, every call of lock() returns,
\* and every participant completes all its iterations (the run terminates)
StarvationFree ==
    /\ \A i \in Threads : (pc[i] = "choose_true") ~> InCS(i)
    /\ <>AllDone

\* all participants have finished all their iterations, each having taken the lock
StarvationFreeWitness ==
    /\ AllDone
    /\ \A i \in Threads : iter[i] = Iterations
    /\ shared_counter = NumThreads * Iterations

\* C3: a participant whose doorway was complete before mine began enters before me,
\* and of two participants holding the same ticket the one with the larger id is not inside
FirstComeFirstServed ==
    /\ \A b \in Threads : InCS(b) => ahead[b] = {}
    /\ \A a, b \in Threads :
          (a < b /\ ticket[a] # 0 /\ ticket[a] = ticket[b]) => ~InCS(b)

\* a participant is inside that found another one ahead of it when its doorway began
FirstComeFirstServedWitness ==
    \E b \in Threads : InCS(b) /\ aheadSnap[b] # {} /\ ahead[b] = {}

\* two participants hold the same ticket and the one with the smaller id is inside
EqualTicketsWitness ==
    \E a, b \in Threads : a < b /\ ticket[a] # 0 /\ ticket[a] = ticket[b] /\ InCS(a) /\ Waiting(b)

\* ------------------------------------------------- DelegationLock claims
IsPrefix(a, b) == Len(a) <= Len(b) /\ \A k \in 1 .. Len(a) : a[k] = b[k]

\* the Tasks of one thread appear in q in the order that thread submitted them
InSubmissionOrder(q) ==
    \A m, n \in 1 .. Len(q) : (m < n /\ q[m][1] = q[n][1]) => q[m][2] < q[n][2]

Pushed(t) == \E k \in 1 .. Len(pushOrder) : pushOrder[k] = t

\* C4: closures are executed in exactly the order in which they were pushed, and
\* resolved in that order; those of one thread in the order that thread submitted them
FifoExecution ==
    /\ IsPrefix(execOrder, pushOrder)
    /\ IsPrefix(resolveOrder, execOrder)
    /\ InSubmissionOrder(execOrder)
    /\ InSubmissionOrder(resolveOrder)

\* three closures resolved, two of them pipelined by one thread and one of another
\* thread pushed between them
FifoExecutionWitness ==
    /\ Len(resolveOrder) = 3
    /\ resolveOrder[1][1] = 0
    /\ resolveOrder[2][1] # 0
    /\ resolveOrder[3][1] = 0

SingleExecutor ==
    /\ Cardinality({t \in Tasks : closureState[t] = "running"}) <= 1
    /\ \A t \in Tasks : closureState[t] = "running" => (wpc = "working" /\ task = t)

\* a closure is executing while another submission is pending and a thread is inside async
SingleExecutorWitness ==
    /\ \E t \in Tasks : closureState[t] = "running"
    /\ Len(taskQueue) >= 1
    /\ \E s \in Submitters : cpc[s] = "push"

\* C7: while no shutdown has been requested, every closure pushed by async is
\* eventually executed and its handle resolved
Progress ==
    \A t \in Tasks : (Pushed(t) /\ promise[t] = "pending") ~> (promise[t] = "ready" \/ ~running)

\* the same, for the runs in which no closure has ended the process by throwing
ProgressUnlessTerminated ==
    \A t \in Tasks :
        (Pushed(t) /\ promise[t] = "pending") ~> (promise[t] = "ready" \/ ~running \/ Aborted)

\* C8: the executor exits only when the stop signal is set and every item that was
\* pushed has been executed (the queue has been drained)
DrainBeforeExit ==
    wpc = "exited" =>
        /\ ~running
        /\ \A k \in 1 .. Len(pushOrder) : closureState[pushOrder[k]] # "idle"

\* C9: once the destructor has set the stop signal and notified, the executor
\* exits and the destructor's join returns (unless the process was ended meanwhile)
DestructionReturns ==
    (cpc[0] = "dtor_join") ~> (cpc[0] = "destroyed" \/ Aborted)

\* C10: a closure that throws does not end the executor
TaskFailureSurvived ==
    \A t \in Tasks : closureState[t] = "threw" => ~Aborted

\* ------------------------------------------------------ harness claims
\* closures of the owning thread that the executor has started
OwnerExecuted == Cardinality({k \in 1 .. Len(execOrder) : execOrder[k][1] = 0})

AllClientsDone == \A c \in Clients : cpc[c] = "done"

\* C11: when all N participants have completed their K rounds, the shared counter
\* is exactly N x K: for the Bakery harnesses, and for the DelegationLock harness
\* (there, beside the increments of the closures the owning thread submitted itself)
ExactAccounting ==
    /\ AllDone => shared_counter = NumThreads * Iterations
    /\ AllClientsDone => sharedCounter = NumClients * Operations + OwnerExecuted

\* a Bakery run has ended, every participant having made all its rounds under contention
ExactAccountingWitness ==
    /\ AllDone
    /\ shared_counter = NumThreads * Iterations
    /\ \A i \in Threads : lastTicket[i] > 1

\* a DelegationLock run in which all workerTask threads have ended
DelegAccountingWitness ==
    /\ AllClientsDone
    /\ sharedCounter >= NumClients * Operations
    /\ OwnerExecuted >= 1

\* ------------------------------------------------- Bakery state claims
\* (ticket[a], a) < (ticket[b], b) in the lexicographic order
LexLess(a, b) == ticket[a] < ticket[b] \/ (ticket[a] = ticket[b] /\ a < b)

\* C15: whenever participant i is in the critical section, every other participant
\* k with ticket[k] # 0 has (ticket[i], i) lexicographically below (ticket[k], k)
PriorityInvariant ==
    \A i \in Threads : \A k \in Threads \ {i} :
        (InCS(i) /\ ticket[k] # 0) => LexLess(i, k)

\* the holder is in the critical section while another participant holds a greater ticket
PriorityInvariantWitness ==
    \E i \in Threads : \E k \in Threads \ {i} :
        InCS(i) /\ Waiting(k) /\ ticket[k] # 0 /\ LexLess(i, k)

\* positions at which participant i is not requesting: outside lock()/unlock(), and
\* in lock() before the ticket store
NotRequesting(i) == pc[i] \in {"start", "done", "choose_true", "scan", "store_ticket"}

\* positions between step 1 (choosing = true) and step 4 (choosing = false) of lock()
InDoorway(i) == pc[i] \in {"scan", "store_ticket", "choose_false"}

\* C16: ticket[i] >= 0 always; ticket[i] = 0 while i is not requesting; ticket[i] > 0
\* in the waiting scan and in the critical section; choosing[i] only inside the doorway
TicketStateMeaning ==
    \A i \in Threads :
        /\ ticket[i] >= 0
        /\ NotRequesting(i) => ticket[i] = 0
        /\ (Waiting(i) \/ InCS(i)) => ticket[i] > 0
        /\ choosing[i] => InDoorway(i)

\* one participant is back from a round with ticket 0, in its next doorway with
\* choosing set, while another one waits on a positive ticket
TicketStateMeaningWitness ==
    \E i \in Threads : \E k \in Threads \ {i} :
        /\ iter[i] >= 1 /\ pc[i] = "scan" /\ choosing[i] /\ ticket[i] = 0
        /\ Waiting(k) /\ ticket[k] > 0

\* the participant has stored the ticket of its current round and not released it
TicketStored(i) == pc[i] = "choose_false" \/ Waiting(i) \/ InCS(i)

\* ticket stores completed so far by participants 0 .. n
RECURSIVE DoorwaysUpTo(_)
DoorwaysUpTo(n) ==
    IF n < 0 THEN 0
    ELSE iter[n] + (IF TicketStored(n) THEN 1 ELSE 0) + DoorwaysUpTo(n - 1)

DoorwaysDone == DoorwaysUpTo(NumThreads - 1)

\* C19: each ticket[i] is at most the number of ticket stores completed so far by
\* all participants, hence at most N x K in a run of N participants and K iterations
TicketBound ==
    \A i \in Threads :
        /\ ticket[i] <= DoorwaysDone
        /\ ticket[i] <= NumThreads * Iterations

\* a ticket reaches N x K: every doorway of the run saw the ticket of the one before
TicketBoundWitness ==
    \E i \in Threads : TicketStored(i) /\ ticket[i] = NumThreads * Iterations

\* C18: a step of lock(id) or unlock(id) leaves the choosing flag and the ticket of
\* every other participant unchanged; unlock(id) sets ticket[id] to 0 and leaves
\* choosing[id] unchanged (false); lock(id) writes choosing[id] and ticket[id] only
\* at its own stores
BakeryFrameStep ==
    \A i \in Threads :
        /\ pc'[i] = pc[i] => (choosing'[i] = choosing[i] /\ ticket'[i] = ticket[i])
        /\ (pc[i] = "unlock" /\ pc'[i] # "unlock") =>
               (ticket'[i] = 0 /\ ~choosing[i] /\ choosing'[i] = choosing[i])
        /\ choosing'[i] # choosing[i] => pc[i] \in {"choose_true", "choose_true_late", "choose_false"}
        /\ ticket'[i] # ticket[i] => pc[i] \in {"store_ticket", "unlock"}

BakeryFrame == [][BakeryFrameStep]_vars

\* a participant has released (ticket 0, choosing false) while another still holds
\* its ticket
BakeryFrameWitness ==
    \E i \in Threads : \E k \in Threads \ {i} :
        /\ iter[i] >= 1 /\ pc[i] = "start" /\ ticket[i] = 0 /\ ~choosing[i]
        /\ TicketStored(k) /\ ticket[k] > 0

\* C17 as stated: the ticket a doorway assigns is greater than the ticket assigned
\* by every doorway that was complete when it began, released or not
MonotoneTickets ==
    \A me \in Threads : \A i \in Threads \ {me} :
        TicketStored(me) => ticket[me] > earlier[me][i]

\* C17: in Lamport_ds.cpp the ticket a doorway assigns is greater than the ticket
\* assigned by every doorway that was complete when it began and whose participant
\* has not released before the scan reads its ticket; after a release the numbers
\* start again from the greatest ticket still held, plus one
MonotoneWhileHeld ==
    impl = "Lamport_ds" =>
        \A me \in Threads : \A i \in Threads \ {me} :
            TicketStored(me) => ticket[me] > held[me][i]

\* a doorway has assigned a ticket above one that was held when it began, in
\* Lamport_ds.cpp, in the second round of the participant
MonotoneWhileHeldWitness ==
    /\ impl = "Lamport_ds"
    /\ \E me \in Threads : \E i \in Threads \ {me} :
           /\ TicketStored(me) /\ iter[me] >= 1
           /\ held[me][i] > 0 /\ ticket[me] > held[me][i]

\* ------------------------------------------------------- construction
\* main() is past the test of the participant count
Checked == mpc \notin {"configure", "check"}

\* C14: with a participant count above the fixed maximum the start fails: the
\* failure is reported, nothing is initialised and no thread is started; with every
\* count from 1 to the maximum it succeeds, all choosing flags false and all
\* tickets 0 when the threads start
ConfigurationError ==
    /\ (Checked /\ num_threads > MAX_THREADS) =>
           (mpc = "failed" /\ started = 0 /\ init_i = 0)
    /\ (Checked /\ num_threads \in 1 .. MAX_THREADS) =>
           /\ mpc \in {"init", "spawn", "running"}
           /\ mpc \in {"spawn", "running"} =>
                  \A i \in 0 .. (num_threads - 1) : ~boot_choosing[i] /\ boot_number[i] = 0
           /\ mpc = "running" => started = num_threads

\* the start has failed with one participant more than the maximum
ConfigurationErrorWitness == mpc = "failed" /\ num_threads = MAX_THREADS + 1

\* the start has succeeded with exactly the maximum
MaximumStartsWitness == mpc = "running" /\ num_threads = MAX_THREADS /\ started = MAX_THREADS

\* ------------------------------------------------ verification harness
\* participants between their occupancy increment and their decrement
Inside == {i \in Threads : pc[i] \in {"cs_flag", "cs_count", "cs_check", "cs_flag_again", "cs_leave"}}

\* a participant has read a non-zero occupancy and its store to the flag is next
FlagStorePending == \E i \in Threads : pc[i] = "cs_flag"

\* C12: the occupancy counter counts the participants between their increment and
\* their decrement, the protected work lying in between; when two are inside at once
\* the flag is set by the next step of the one that came second; once set the flag
\* is never cleared, so it is set when read after all participants have ended
ViolationDetected ==
    /\ [](impl = "part_000" => inside_critical_section_count = Cardinality(Inside))
    /\ [](inside_critical_section_count >= 2 => (mutual_exclusion_violated \/ FlagStorePending))
    /\ [][mutual_exclusion_violated => mutual_exclusion_violated']_vars
    /\ [](inside_critical_section_count >= 2 => [](AllDone => mutual_exclusion_violated))

\* all participants have ended and the flag is set: two of them had been inside at once
ViolationDetectedWitness ==
    /\ impl = "part_000"
    /\ AllDone
    /\ mutual_exclusion_violated
    /\ inside_critical_section_count = 0

\* C20: around a lock whose lock/unlock do nothing the final counter is still
\* N x K in every interleaving, in both harnesses; the harness of Lamport_ds.cpp
\* has no other record, so only the occupancy check of part_000 shows the failure
CounterCheckBlind ==
    /\ AllDone => shared_counter = NumThreads * Iterations
    /\ impl = "Lamport_ds" => (~mutual_exclusion_violated /\ inside_critical_section_count = 0)

\* two participants of Lamport_ds.cpp are at the increment at once, in their last round
CounterCheckBlindWitness ==
    /\ impl = "Lamport_ds"
    /\ \A i \in Threads : pc[i] = "cs_count" /\ iter[i] = Iterations - 1

\* the run of part_000 has ended with the right counter and the flag set
BlindButFlaggedWitness ==
    /\ impl = "part_000"
    /\ AllDone /\ shared_counter = NumThreads * Iterations /\ mutual_exclusion_violated

\* ------------------------------------------------------ memory ordering
\* C13: with each access at its declared ordering, part_000 keeps at most one
\* participant between the return of lock() and its unlock(), and its harness
\* never counts two inside
ExclusionAsDeclared ==
    /\ Cardinality({i \in Threads : InCS(i)}) <= 1
    /\ inside_critical_section_count <= 1
====
